---- MODULE Spec2Model ----
(***************************************************************************)
(* A model of src/src/mldr/core/config.py: the ModelConfig and Config      *)
(* dataclasses, Config's constructor-time validation, the attribute probe  *)
(* of Config.get_model_config, the credential loader load_api_keys, the    *)
(* table accessor get_env_var_name and the factory default_config.         *)
(*                                                                         *)
(* Python objects live on a heap: a Config holds a REFERENCE to its        *)
(* primary_models list and to five ModelConfig objects.  References are    *)
(* indices into the sequences lists, mcs and configs, so that sharing of   *)
(* an object between two holders is visible in the model.  Python strings  *)
(* that the code only compares are TLA+ strings; the values of environment *)
(* variables, which the code strips, are sequences of characters.          *)
(***************************************************************************)
EXTENDS Naturals, Sequences, FiniteSets, TLC

VARIABLES
    API_KEY_ENV_VARS,  \* the module-level dict _API_KEY_ENV_VARS, in insertion order
    environ,           \* os.environ: a dict from variable name to value
    lists,             \* heap of list objects (list id -> sequence of identifiers)
    mcs,               \* heap of ModelConfig objects
    configs,           \* heap of Config objects that construction returned
    nmut,              \* history: number of mutations callers have applied so far
    mutated,           \* history: the Configs a caller has mutated
    last               \* the last call: what was called, and how it ended

vars == <<API_KEY_ENV_VARS, environ, lists, mcs, configs, nmut, mutated, last>>

heap == <<lists, mcs, configs>>

history == <<nmut, mutated>>

---------------------------------------------------------------------------
(* Bounds of the model. *)

\* longest primary_models list a caller passes or grows a list to
MaxLen == 2
\* Config objects built under Spec
MaxConfigs == 1
\* Config objects built under SpecMutate
MaxDefaults == 2
\* mutations callers apply under SpecValidate and SpecMutate
MaxMutations == 2
\* longest value of an environment variable
MaxValueLen == 3
\* environment variables set at once in a snapshot
MaxSetVars == 2

---------------------------------------------------------------------------
(* Data: config.py lines 11-61. *)

ModelId == {"gpt", "claude", "gemini", "perplexity", "grok"}

\* The dataclass fields of Config that hold a ModelConfig, in declaration order.
ModelFields == <<"gpt", "claude", "gemini", "perplexity", "grok">>

\* The literal of _API_KEY_ENV_VARS, as (key, value) items in insertion order.
API_KEY_ENV_VARS_literal ==
    << <<"gpt", "OPENAI_API_KEY">>,
       <<"claude", "ANTHROPIC_API_KEY">>,
       <<"gemini", "GOOGLE_API_KEY">>,
       <<"perplexity", "PERPLEXITY_API_KEY">>,
       <<"grok", "GROK_API_KEY">> >>

timeout_sec_default == 600

chairman_model_default == "gpt"

ModelConfig(enabled, model_name) ==
    [enabled |-> enabled, model_name |-> model_name, timeout_sec |-> timeout_sec_default]

\* The default_factory of each ModelConfig field of Config.
default_factory(field) ==
    CASE field = "gpt" -> ModelConfig(TRUE, "gpt-4o")
      [] field = "claude" -> ModelConfig(TRUE, "claude-sonnet-4-20250514")
      [] field = "gemini" -> ModelConfig(FALSE, "gemini-1.5-pro")
      [] field = "perplexity" -> ModelConfig(FALSE, "sonar-pro")
      [] field = "grok" -> ModelConfig(FALSE, "grok-2")

\* What hasattr(self, name) finds on a Config instance: its seven dataclass
\* fields and the attributes of the class (its methods among them).
ConfigAttributes ==
    ModelId \cup {"primary_models", "chairman_model", "get_model_config", "__post_init__"}

---------------------------------------------------------------------------
(* Python values. *)

\* An empty dict.
EmptyDict == [k \in {} |-> 0]

\* d[k] = v on a dict.
DictSet(d, k, v) == [x \in (DOMAIN d) \cup {k} |-> IF x = k THEN v ELSE d[x]]

\* x in xs, for a list.
list_contains(xs, x) == \E i \in 1..Len(xs) : xs[i] = x

\* str.strip(): leading and trailing whitespace removed.
Whitespace == {" "}

RECURSIVE lstrip(_)
lstrip(s) == IF s # <<>> /\ Head(s) \in Whitespace THEN lstrip(Tail(s)) ELSE s

RECURSIVE rstrip(_)
rstrip(s) ==
    IF s # <<>> /\ s[Len(s)] \in Whitespace THEN rstrip(SubSeq(s, 1, Len(s) - 1)) ELSE s

\* Mutant of strip: only the leading whitespace removed.
strip_leading_only(s) == lstrip(s)

strip(s) == rstrip(lstrip(s))

\* repr of a list of strings, as the f-string of __post_init__ formats it:
\* "['a', 'b']", one token per bracket, quote, element and separator.
RECURSIVE repr_items(_)
repr_items(xs) ==
    IF xs = <<>> THEN <<>>
    ELSE <<"'", Head(xs), "'">>
         \o (IF Tail(xs) = <<>> THEN <<>> ELSE <<", ">>)
         \o repr_items(Tail(xs))

repr_list(xs) == <<"[">> \o repr_items(xs) \o <<"]">>

\* A returned value: a reference to a heap object, or a string.
NoValue == [type |-> "None", ref |-> 0, str |-> ""]
Ref(type, ref) == [type |-> type, ref |-> ref, str |-> ""]
Str(s) == [type |-> "str", ref |-> 0, str |-> s]

\* The arguments of a Config(...) call; NoArgs for any other call.
Args(primary_models, chairman_model, overrides) ==
    [primary_models |-> primary_models, chairman_model |-> chairman_model,
     overrides |-> overrides]

NoArgs == Args(<<>>, "", EmptyDict)

\* The record of a call: the function or method called (op), the Config it
\* was called on or returned (config, 0 for none), its string argument (arg),
\* how it ended (kind: "ok" or the exception raised, with its message msg),
\* the value returned (ret; keys holds a returned dict), and for a
\* construction its arguments (args) and the caller's references to the
\* ModelConfig objects it passed (overrides).
Call(op, config, arg, kind, ret, msg) ==
    [op |-> op, config |-> config, arg |-> arg, kind |-> kind, ret |-> ret,
     msg |-> msg, keys |-> EmptyDict, args |-> NoArgs, overrides |-> EmptyDict]

---------------------------------------------------------------------------
(* Config construction: the dataclass __init__ and __post_init__. *)

\* Mutants of __post_init__: the membership check left out; an error message
\* that leaves the list out; the two checks in the other order.
post_init_no_membership(primary_models, chairman_model) ==
    IF primary_models = <<>>
    THEN [kind |-> "ValueError",
          msg |-> <<"primary_models must contain at least one model">>]
    ELSE [kind |-> "ok", msg |-> <<>>]

post_init_short_message(primary_models, chairman_model) ==
    IF primary_models = <<>>
    THEN [kind |-> "ValueError",
          msg |-> <<"primary_models must contain at least one model">>]
    ELSE IF ~list_contains(primary_models, chairman_model)
    THEN [kind |-> "ValueError",
          msg |-> <<"chairman_model='", chairman_model,
                    "' must be included in primary_models=">>]
    ELSE [kind |-> "ok", msg |-> <<>>]

post_init_membership_first(primary_models, chairman_model) ==
    IF ~list_contains(primary_models, chairman_model)
    THEN [kind |-> "ValueError",
          msg |-> <<"chairman_model='", chairman_model,
                    "' must be included in primary_models=">>
                  \o repr_list(primary_models)]
    ELSE IF primary_models = <<>>
    THEN [kind |-> "ValueError",
          msg |-> <<"primary_models must contain at least one model">>]
    ELSE [kind |-> "ok", msg |-> <<>>]

\* Config.__post_init__: the outcome of validation.
post_init(primary_models, chairman_model) ==
    IF primary_models = <<>>
    THEN [kind |-> "ValueError",
          msg |-> <<"primary_models must contain at least one model">>]
    ELSE IF ~list_contains(primary_models, chairman_model)
    THEN [kind |-> "ValueError",
          msg |-> <<"chairman_model='", chairman_model,
                    "' must be included in primary_models=">>
                  \o repr_list(primary_models)]
    ELSE [kind |-> "ok", msg |-> <<>>]

\* The ModelConfig objects a construction puts on the heap: the caller's
\* overrides first (they exist before the call), then one default per field
\* that has no override.
OverrideFields(overrides) == SelectSeq(ModelFields, LAMBDA f : f \in DOMAIN overrides)
DefaultFields(overrides) == SelectSeq(ModelFields, LAMBDA f : f \notin DOMAIN overrides)
NewFieldOrder(overrides) == OverrideFields(overrides) \o DefaultFields(overrides)

FieldRef(overrides, base, field) ==
    base + (CHOOSE i \in 1..Len(NewFieldOrder(overrides)) :
                NewFieldOrder(overrides)[i] = field)

NewModelConfigs(overrides) ==
    [i \in 1..Len(ModelFields) |->
        LET f == NewFieldOrder(overrides)[i]
        IN IF f \in DOMAIN overrides THEN overrides[f] ELSE default_factory(f)]

\* Mutant of the construction: the Config stores a deduplicated copy of the
\* list it was given (list(dict.fromkeys(primary_models))).
RECURSIVE dedup(_)
dedup(xs) ==
    IF xs = <<>> THEN <<>>
    ELSE LET rest == dedup(SubSeq(xs, 1, Len(xs) - 1))
             x == xs[Len(xs)]
         IN IF list_contains(rest, x) THEN rest ELSE Append(rest, x)

ConfigInit_dedup(op, primary_models, chairman_model, overrides) ==
    LET outcome == post_init(primary_models, chairman_model)
        lid == Len(lists) + 1
        cid == Len(configs) + 1
        args == Args(primary_models, chairman_model, overrides)
    IN IF outcome.kind = "ok"
       THEN /\ lists' = Append(lists, dedup(primary_models))
            /\ mcs' = mcs \o NewModelConfigs(overrides)
            /\ configs' = Append(configs,
                   [primary_models |-> lid,
                    chairman_model |-> chairman_model,
                    gpt |-> FieldRef(overrides, Len(mcs), "gpt"),
                    claude |-> FieldRef(overrides, Len(mcs), "claude"),
                    gemini |-> FieldRef(overrides, Len(mcs), "gemini"),
                    perplexity |-> FieldRef(overrides, Len(mcs), "perplexity"),
                    grok |-> FieldRef(overrides, Len(mcs), "grok")])
            /\ last' = [Call(op, cid, "", "ok", Ref("Config", cid), <<>>)
                          EXCEPT !.args = args,
                                 !.overrides =
                              [f \in DOMAIN overrides |-> FieldRef(overrides, Len(mcs), f)]]
       ELSE /\ UNCHANGED heap
            /\ last' = [Call(op, 0, "", outcome.kind, NoValue, outcome.msg)
                          EXCEPT !.args = args]

\* Config(primary_models=..., chairman_model=..., **overrides), called as op.
\* The caller's list is a new heap object and the Config stores a reference
\* to that same object.  A construction that raises leaves no object behind.
ConfigInit(op, primary_models, chairman_model, overrides) ==
    LET outcome == post_init(primary_models, chairman_model)
        lid == Len(lists) + 1
        cid == Len(configs) + 1
        args == Args(primary_models, chairman_model, overrides)
    IN IF outcome.kind = "ok"
       THEN /\ lists' = Append(lists, primary_models)
            /\ mcs' = mcs \o NewModelConfigs(overrides)
            /\ configs' = Append(configs,
                   [primary_models |-> lid,
                    chairman_model |-> chairman_model,
                    gpt |-> FieldRef(overrides, Len(mcs), "gpt"),
                    claude |-> FieldRef(overrides, Len(mcs), "claude"),
                    gemini |-> FieldRef(overrides, Len(mcs), "gemini"),
                    perplexity |-> FieldRef(overrides, Len(mcs), "perplexity"),
                    grok |-> FieldRef(overrides, Len(mcs), "grok")])
            /\ last' = [Call(op, cid, "", "ok", Ref("Config", cid), <<>>)
                          EXCEPT !.args = args,
                                 !.overrides =
                              [f \in DOMAIN overrides |-> FieldRef(overrides, Len(mcs), f)]]
       ELSE /\ UNCHANGED heap
            /\ last' = [Call(op, 0, "", outcome.kind, NoValue, outcome.msg)
                          EXCEPT !.args = args]

\* Config(...) as a caller writes it.
Config(primary_models, chairman_model, overrides) ==
    /\ ConfigInit("Config", primary_models, chairman_model, overrides)
    /\ UNCHANGED <<API_KEY_ENV_VARS, environ, history>>

\* Mutant of default_config: a cached default whose list and ModelConfig
\* objects every result after the first shares.
default_config_cached ==
    /\ IF Len(configs) > 0
       THEN /\ configs' = Append(configs, configs[1])
            /\ last' = [Call("default_config", Len(configs) + 1, "", "ok",
                              Ref("Config", Len(configs) + 1), <<>>)
                           EXCEPT !.args = Args(<<"gpt", "claude">>,
                                                chairman_model_default, EmptyDict)]
            /\ UNCHANGED <<lists, mcs>>
       ELSE ConfigInit("default_config", <<"gpt", "claude">>,
                       chairman_model_default, EmptyDict)
    /\ UNCHANGED <<API_KEY_ENV_VARS, environ, history>>

\* default_config(): the list literal is evaluated on every call, and
\* chairman_model and the five ModelConfig fields take their defaults.
default_config ==
    /\ ConfigInit("default_config", <<"gpt", "claude">>, chairman_model_default, EmptyDict)
    /\ UNCHANGED <<API_KEY_ENV_VARS, environ, history>>

---------------------------------------------------------------------------
(* Config.get_model_config. *)

hasattr(c, name) == name \in ConfigAttributes

\* Mutant of the attribute read: every identifier reads the gpt field.
getattr_gpt(c, name) ==
    CASE name \in ModelId -> Ref("ModelConfig", configs[c].gpt)
      [] name = "primary_models" -> Ref("list", configs[c].primary_models)
      [] name = "chairman_model" -> Str(configs[c].chairman_model)
      [] OTHER -> Ref("method", c)

getattr(c, name) ==
    CASE name \in ModelId -> Ref("ModelConfig", configs[c][name])
      [] name = "primary_models" -> Ref("list", configs[c].primary_models)
      [] name = "chairman_model" -> Str(configs[c].chairman_model)
      [] OTHER -> Ref("method", c)

get_model_config(c, model_id) ==
    /\ last' = IF ~hasattr(c, model_id)
               THEN Call("get_model_config", c, model_id, "KeyError", NoValue,
                         <<"Unknown model_id: '", model_id, "'">>)
               ELSE Call("get_model_config", c, model_id, "ok", getattr(c, model_id), <<>>)
    /\ UNCHANGED <<API_KEY_ENV_VARS, environ, heap, history>>

---------------------------------------------------------------------------
(* The credential loader and the table accessor. *)

\* os.environ.get(name): the value, or None.
None == [some |-> FALSE, value |-> <<>>]
Some(v) == [some |-> TRUE, value |-> v]
environ_get(env, name) == IF name \in DOMAIN env THEN Some(env[name]) ELSE None

\* The truth value of an Optional[str]: None and "" are false.
truthy(opt) == opt.some /\ opt.value # <<>>

\* The for loop of load_api_keys over _API_KEY_ENV_VARS.items(), from item i on.
RECURSIVE load_api_keys_loop(_, _, _, _)
load_api_keys_loop(items, env, i, keys) ==
    IF i > Len(items) THEN keys
    ELSE LET model_id == items[i][1]
             env_var == items[i][2]
             value == environ_get(env, env_var)
         IN IF truthy(value)
            THEN LET stripped == strip(value.value)
                 IN IF stripped # <<>>
                    THEN load_api_keys_loop(items, env, i + 1,
                                            DictSet(keys, model_id, stripped))
                    ELSE load_api_keys_loop(items, env, i + 1, keys)
            ELSE load_api_keys_loop(items, env, i + 1, keys)

\* Mutant of the loader: it consumes the table as it reads it
\* (_API_KEY_ENV_VARS.popitem() in place of iteration).
load_api_keys_popitem ==
    /\ last' = [Call("load_api_keys", 0, "", "ok", Ref("dict", 0), <<>>)
                  EXCEPT !.keys = load_api_keys_loop(API_KEY_ENV_VARS, environ, 1, EmptyDict)]
    /\ API_KEY_ENV_VARS' = <<>>
    /\ UNCHANGED <<environ, heap, history>>

load_api_keys ==
    /\ last' = [Call("load_api_keys", 0, "", "ok", Ref("dict", 0), <<>>)
                  EXCEPT !.keys = load_api_keys_loop(API_KEY_ENV_VARS, environ, 1, EmptyDict)]
    /\ UNCHANGED <<API_KEY_ENV_VARS, environ, heap, history>>

\* _API_KEY_ENV_VARS[model_id]: the value of the item with that key, or KeyError.
dict_has(items, key) == \E i \in 1..Len(items) : items[i][1] = key
dict_getitem(items, key) == items[CHOOSE i \in 1..Len(items) : items[i][1] = key][2]

get_env_var_name(model_id) ==
    /\ last' = IF dict_has(API_KEY_ENV_VARS, model_id)
               THEN Call("get_env_var_name", 0, model_id, "ok",
                         Str(dict_getitem(API_KEY_ENV_VARS, model_id)), <<>>)
               ELSE Call("get_env_var_name", 0, model_id, "KeyError", NoValue,
                         <<"'", model_id, "'">>)
    /\ UNCHANGED <<API_KEY_ENV_VARS, environ, heap, history>>

---------------------------------------------------------------------------
(* What a caller can do to a Config it holds.  Config and ModelConfig are  *)
(* plain dataclasses (not frozen) and primary_models is a list, so their   *)
(* fields can be assigned and the list changed in place; the list a Config *)
(* holds is the very object the caller passed, so a change through the     *)
(* caller's own reference is the same change.  No validation runs.         *)

\* The bookkeeping of a mutation applied through Config c.
Mutate(op, c, arg) ==
    /\ nmut < MaxMutations
    /\ nmut' = nmut + 1
    /\ mutated' = mutated \cup {c}
    /\ last' = Call(op, c, arg, "ok", NoValue, <<>>)
    /\ UNCHANGED <<API_KEY_ENV_VARS, environ>>

\* c.chairman_model = model_id
set_chairman_model(c, model_id) ==
    /\ configs' = [configs EXCEPT ![c].chairman_model = model_id]
    /\ UNCHANGED <<lists, mcs>>
    /\ Mutate("set_chairman_model", c, model_id)

\* c.primary_models = [...], a new list object
set_primary_models(c, xs) ==
    /\ lists' = Append(lists, xs)
    /\ configs' = [configs EXCEPT ![c].primary_models = Len(lists) + 1]
    /\ UNCHANGED mcs
    /\ Mutate("set_primary_models", c, "")

\* c.primary_models.append(model_id)
list_append(c, model_id) ==
    /\ lists' = [lists EXCEPT ![configs[c].primary_models] = Append(@, model_id)]
    /\ UNCHANGED <<mcs, configs>>
    /\ Mutate("list_append", c, model_id)

\* c.primary_models.clear()
list_clear(c) ==
    /\ lists' = [lists EXCEPT ![configs[c].primary_models] = <<>>]
    /\ UNCHANGED <<mcs, configs>>
    /\ Mutate("list_clear", c, "")

\* c.<field> = ModelConfig(...), a new ModelConfig object
set_model_config(c, field, mc) ==
    /\ mcs' = Append(mcs, mc)
    /\ configs' = [configs EXCEPT ![c][field] = Len(mcs) + 1]
    /\ UNCHANGED lists
    /\ Mutate("set_model_config", c, field)

\* c.<field>.enabled = b
set_enabled(c, field, b) ==
    /\ mcs' = [mcs EXCEPT ![configs[c][field]].enabled = b]
    /\ UNCHANGED <<lists, configs>>
    /\ Mutate("set_enabled", c, field)

---------------------------------------------------------------------------
(* Inputs. *)

\* Identifiers a caller names as chairman_model: two of the five, and one
\* that is not a model identifier.
InputIds == {"gpt", "claude", "unknown"}

\* Identifiers a caller puts in a primary_models list.
ElementIds == {"gpt", "unknown"}

PrimaryInputs == UNION {[1..n -> ElementIds] : n \in 0..MaxLen}

\* Per-backend overrides a caller passes: none, or a ModelConfig for gemini.
OverrideInputs ==
    {EmptyDict,
     "gemini" :> [ModelConfig(TRUE, "custom") EXCEPT !.timeout_sec = 300]}

\* Arguments of get_model_config and get_env_var_name: the five identifiers,
\* an unknown one, and names of other attributes of a Config.
LookupInputs ==
    ModelId \cup {"unknown", "primary_models", "chairman_model", "get_model_config"}

EnvVarNames == {API_KEY_ENV_VARS_literal[i][2] : i \in 1..Len(API_KEY_ENV_VARS_literal)}

Chars == {" ", "k"}

EnvValues == UNION {[1..n -> Chars] : n \in 0..MaxValueLen}

\* The snapshots of the environment with at most MaxSetVars variables set.
EnvSnapshots ==
    UNION {[S -> EnvValues] : S \in {T \in SUBSET EnvVarNames : Cardinality(T) <= MaxSetVars}}

---------------------------------------------------------------------------
(* Specifications. *)

InitCall == Call("init", 0, "", "ok", NoValue, <<>>)

InitHeap ==
    /\ lists = <<>>
    /\ mcs = <<>>
    /\ configs = <<>>
    /\ nmut = 0
    /\ mutated = {}
    /\ last = InitCall

\* A process whose environment holds a padded key and a blank one.
Init ==
    /\ API_KEY_ENV_VARS = API_KEY_ENV_VARS_literal
    /\ environ = ("OPENAI_API_KEY" :> <<" ", "k", " ">>) @@ ("ANTHROPIC_API_KEY" :> <<" ">>)
    /\ InitHeap

Construct ==
    /\ Len(configs) < MaxConfigs
    /\ \E pm \in PrimaryInputs, ch \in InputIds, ov \in OverrideInputs : Config(pm, ch, ov)

DefaultConfig ==
    /\ Len(configs) < MaxConfigs
    /\ default_config

GetModelConfig ==
    \E c \in 1..Len(configs), model_id \in LookupInputs : get_model_config(c, model_id)

LoadApiKeys == load_api_keys

GetEnvVarName == \E model_id \in LookupInputs : get_env_var_name(model_id)

Next ==
    \/ Construct
    \/ DefaultConfig
    \/ GetModelConfig
    \/ LoadApiKeys
    \/ GetEnvVarName

Spec == Init /\ [][Next]_vars

\* The loader under every snapshot of the environment.
InitEnv ==
    /\ API_KEY_ENV_VARS = API_KEY_ENV_VARS_literal
    /\ environ \in EnvSnapshots
    /\ InitHeap

NextEnv == LoadApiKeys

SpecEnv == InitEnv /\ [][NextEnv]_vars

\* Validation against later mutation: Configs built from a few literal
\* arguments, looked up, and changed in the two fields validation reads.
ListLiterals == {<<>>, <<"claude">>, <<"gpt", "claude">>}

ConstructLiteral ==
    /\ Len(configs) < MaxConfigs
    /\ \E pm \in ListLiterals, ch \in InputIds : Config(pm, ch, EmptyDict)

SetChairmanModel ==
    \E c \in 1..Len(configs), model_id \in InputIds : set_chairman_model(c, model_id)

SetPrimaryModels ==
    \E c \in 1..Len(configs), xs \in ListLiterals : set_primary_models(c, xs)

\* A list of at most MaxLen elements takes one more.
ListAppend ==
    \E c \in 1..Len(configs), model_id \in ElementIds :
        /\ Len(lists[configs[c].primary_models]) <= MaxLen
        /\ list_append(c, model_id)

ListClear == \E c \in 1..Len(configs) : list_clear(c)

NextValidate ==
    \/ ConstructLiteral
    \/ GetModelConfig
    \/ SetChairmanModel
    \/ SetPrimaryModels
    \/ ListAppend
    \/ ListClear

SpecValidate == Init /\ [][NextValidate]_vars

\* Independence of default configurations: several results of
\* default_config, each changed through its own fields and objects.
DefaultConfigs ==
    /\ Len(configs) < MaxDefaults
    /\ default_config

SetModelConfig ==
    \E c \in 1..Len(configs), field \in ModelId :
        set_model_config(c, field, ModelConfig(~default_factory(field).enabled, "custom"))

SetEnabled ==
    \E c \in 1..Len(configs), field \in ModelId, b \in BOOLEAN : set_enabled(c, field, b)

NextMutate ==
    \/ DefaultConfigs
    \/ SetChairmanModel
    \/ SetPrimaryModels
    \/ ListAppend
    \/ ListClear
    \/ SetModelConfig
    \/ SetEnabled

SpecMutate == Init /\ [][NextMutate]_vars

---------------------------------------------------------------------------
(* Properties. *)

Elements(xs) == {xs[i] : i \in 1..Len(xs)}

\* The list a Config holds, read through its reference.
PrimaryModelsOf(c) == lists[configs[c].primary_models]

\* The two invariants of a Config.
Valid(c) ==
    /\ Len(PrimaryModelsOf(c)) > 0
    /\ configs[c].chairman_model \in Elements(PrimaryModelsOf(c))

\* C1, as claimed: every Config that has been constructed satisfies both
\* invariants (primary_models non-empty, chairman_model among primary_models)
\* in every reachable state, whatever constructions, lookups, field
\* assignments and in-place list changes have happened.
C1_NoInvalidConfig == \A c \in 1..Len(configs) : Valid(c)

\* C1, amended: every Config satisfies both invariants from the moment its
\* construction returns, through any later constructions and
\* get_model_config calls, for as long as no caller has assigned one of its
\* fields or changed its primary_models list in place.
C1_ValidUntilMutated == \A c \in 1..Len(configs) : c \notin mutated => Valid(c)

\* A Config that was built, never changed, and looked up.
C1_Witness ==
    /\ Len(configs) >= 1
    /\ 1 \notin mutated
    /\ last.op = "get_model_config"
    /\ last.config = 1
    /\ Valid(1)

\* C2, as claimed: get_model_config with an argument that is not one of the
\* five identifiers raises KeyError naming the argument and returns nothing,
\* also when the argument names another attribute of the Config.
C2_UnknownIdRaises ==
    (last.op = "get_model_config" /\ last.arg \notin ModelId)
        => /\ last.kind = "KeyError"
           /\ last.ret = NoValue
           /\ last.msg = <<"Unknown model_id: '", last.arg, "'">>

\* C3, as claimed: the chairman_model and every element of primary_models of
\* a successfully constructed Config is one of the five identifiers.
C3_IdsInClosedSet ==
    \A c \in 1..Len(configs) :
        /\ configs[c].chairman_model \in ModelId
        /\ Elements(PrimaryModelsOf(c)) \subseteq ModelId

\* The tokens of a formatted list that are not brackets, quotes or separators.
ListTokens(tokens) == SelectSeq(tokens, LAMBDA t : t \notin {"[", "]", "'", ", "})

\* C4: constructing a Config from a non-empty primary_models and a
\* chairman_model that is not an element of it raises ValueError, returns no
\* Config, and the message names the chairman_model value and the whole
\* primary_models list, in order.
C4_ChairmanNotPrimaryFails ==
    (/\ last.op = "Config"
     /\ last.args.primary_models # <<>>
     /\ last.args.chairman_model \notin Elements(last.args.primary_models))
        => /\ last.kind = "ValueError"
           /\ last.ret = NoValue
           /\ last.config = 0
           /\ Len(last.msg) >= 3
           /\ last.msg[1] = "chairman_model='"
           /\ last.msg[2] = last.args.chairman_model
           /\ last.msg[3] = "' must be included in primary_models="
           /\ ListTokens(SubSeq(last.msg, 4, Len(last.msg))) = last.args.primary_models

\* Config(primary_models=["unknown", "gpt"], chairman_model="claude") raised.
C4_Witness ==
    /\ last.op = "Config"
    /\ last.args.primary_models = <<"unknown", "gpt">>
    /\ last.args.chairman_model = "claude"
    /\ last.kind = "ValueError"

\* C5: constructing a Config from an empty primary_models raises ValueError
\* with the empty-list message, never the chairman-membership message,
\* whatever chairman_model and overrides are passed.
C5_EmptyPrimaryFails ==
    (last.op = "Config" /\ last.args.primary_models = <<>>)
        => /\ last.kind = "ValueError"
           /\ last.ret = NoValue
           /\ last.msg = <<"primary_models must contain at least one model">>

\* Config(primary_models=[], chairman_model="unknown", gemini=...) raised.
C5_Witness ==
    /\ last.op = "Config"
    /\ last.args.primary_models = <<>>
    /\ last.args.chairman_model = "unknown"
    /\ DOMAIN last.args.overrides = {"gemini"}
    /\ last.kind = "ValueError"

\* C6: constructing a Config from a non-empty primary_models and a
\* chairman_model that is an element of it succeeds, and the Config's
\* primary_models and chairman_model are the values passed: same elements,
\* same order, duplicates kept.
C6_ValidConstructionEchoes ==
    (/\ last.op = "Config"
     /\ last.args.primary_models # <<>>
     /\ last.args.chairman_model \in Elements(last.args.primary_models))
        => /\ last.kind = "ok"
           /\ last.config \in 1..Len(configs)
           /\ last.ret = Ref("Config", last.config)
           /\ PrimaryModelsOf(last.config) = last.args.primary_models
           /\ configs[last.config].chairman_model = last.args.chairman_model

\* Config(primary_models=["gpt", "gpt"], chairman_model="gpt") returned.
C6_Witness ==
    /\ last.op = "Config"
    /\ last.kind = "ok"
    /\ last.args.primary_models = <<"gpt", "gpt">>
    /\ PrimaryModelsOf(last.config) = <<"gpt", "gpt">>

\* The table of section 6 of the specification.
ClaimedTable ==
    ("gpt" :> "OPENAI_API_KEY") @@ ("claude" :> "ANTHROPIC_API_KEY")
    @@ ("gemini" :> "GOOGLE_API_KEY") @@ ("perplexity" :> "PERPLEXITY_API_KEY")
    @@ ("grok" :> "GROK_API_KEY")

NonBlank(v) == {i \in 1..Len(v) : v[i] \notin Whitespace}

\* v from its first to its last character that is not whitespace.
Trimmed(v) ==
    LET lo == CHOOSE i \in NonBlank(v) : \A j \in NonBlank(v) : i <= j
        hi == CHOOSE i \in NonBlank(v) : \A j \in NonBlank(v) : j <= i
    IN SubSeq(v, lo, hi)

\* C7: the keys of the mapping load_api_keys returns are exactly the
\* identifiers whose own variable is set and has a character that is not
\* whitespace, and each maps to its variable's value without the leading and
\* trailing whitespace; nothing else is in the mapping.
C7_LoadedKeys ==
    last.op = "load_api_keys"
        => LET present == {m \in ModelId :
                              /\ ClaimedTable[m] \in DOMAIN environ
                              /\ NonBlank(environ[ClaimedTable[m]]) # {}}
           IN /\ DOMAIN last.keys = present
              /\ \A m \in present : last.keys[m] = Trimmed(environ[ClaimedTable[m]])

\* OPENAI_API_KEY=" k ", ANTHROPIC_API_KEY=" ", the rest unset: only gpt.
C7_Witness ==
    /\ last.op = "load_api_keys"
    /\ DOMAIN environ = {"OPENAI_API_KEY", "ANTHROPIC_API_KEY"}
    /\ environ["OPENAI_API_KEY"] = <<" ", "k", " ">>
    /\ environ["ANTHROPIC_API_KEY"] = <<" ">>
    /\ DOMAIN last.keys = {"gpt"}
    /\ last.keys["gpt"] = <<"k">>

\* The ModelConfig objects a Config refers to.
ModelConfigsOf(c) == {configs[c][f] : f \in ModelId}

\* The default values section 4.4 of the specification lists.
HasDefaults(c) ==
    /\ PrimaryModelsOf(c) = <<"gpt", "claude">>
    /\ configs[c].chairman_model = "gpt"
    /\ mcs[configs[c].gpt].enabled
    /\ mcs[configs[c].claude].enabled
    /\ ~mcs[configs[c].gemini].enabled
    /\ ~mcs[configs[c].perplexity].enabled
    /\ ~mcs[configs[c].grok].enabled

\* C8: two results of default_config share no list and no ModelConfig
\* object, the five ModelConfig objects of a result are distinct, and a
\* result that no caller has changed has the default values, whatever has
\* been done to the other results and whenever it was returned.
C8_DefaultsIndependent ==
    /\ \A c1 \in 1..Len(configs), c2 \in 1..Len(configs) :
           c1 # c2 => /\ configs[c1].primary_models # configs[c2].primary_models
                      /\ ModelConfigsOf(c1) \cap ModelConfigsOf(c2) = {}
    /\ \A c \in 1..Len(configs) :
           c \notin mutated => HasDefaults(c) /\ Cardinality(ModelConfigsOf(c)) = 5

\* The first result had its list cleared and its gpt disabled, and a later
\* default_config call returned a second one.
C8_Witness ==
    /\ Len(configs) = 2
    /\ mutated = {1}
    /\ PrimaryModelsOf(1) = <<>>
    /\ ~mcs[configs[1].gpt].enabled
    /\ last.op = "default_config"
    /\ last.config = 2
    /\ HasDefaults(2)

\* C9: get_model_config(m) for one of the five identifiers returns a
\* reference to the ModelConfig object stored in the field named m, which is
\* the object of no other field, and changes nothing on the heap; and the
\* object a construction stores in field m is the override passed for m, or
\* the default of m when none was passed.
C9_ReturnsStoredObject ==
    [][/\ (last'.op = "get_model_config" /\ last'.arg \in ModelId)
            => /\ last'.kind = "ok"
               /\ last'.ret = Ref("ModelConfig", configs[last'.config][last'.arg])
               /\ \A m \in ModelId \ {last'.arg} :
                      configs[last'.config][m] # last'.ret.ref
               /\ UNCHANGED heap
       /\ (last'.op = "Config" /\ last'.kind = "ok")
            => \A m \in ModelId :
                   mcs'[configs'[last'.config][m]] =
                       IF m \in DOMAIN last'.args.overrides
                       THEN last'.args.overrides[m]
                       ELSE default_factory(m)
      ]_vars

\* get_model_config("gemini") returned the override a construction was given.
C9_Witness ==
    /\ last.op = "get_model_config"
    /\ last.arg = "gemini"
    /\ last.kind = "ok"
    /\ last.ret.type = "ModelConfig"
    /\ mcs[last.ret.ref].model_name = "custom"

\* The module-level table read as a mapping.
TableAsDict ==
    [k \in {API_KEY_ENV_VARS[i][1] : i \in 1..Len(API_KEY_ENV_VARS)} |->
        dict_getitem(API_KEY_ENV_VARS, k)]

\* C10: in every reachable state the table holds exactly the five entries of
\* section 6, and get_env_var_name(m) returns that literal name for each of
\* the five identifiers.
C10_TableNeverMutated ==
    /\ Len(API_KEY_ENV_VARS) = Cardinality(ModelId)
    /\ TableAsDict = ClaimedTable
    /\ (last.op = "get_env_var_name" /\ last.arg \in ModelId)
           => last.kind = "ok" /\ last.ret = Str(ClaimedTable[last.arg])

\* get_env_var_name("perplexity") after a Config was built.
C10_Witness ==
    /\ Len(configs) = 1
    /\ last.op = "get_env_var_name"
    /\ last.arg = "perplexity"
    /\ last.ret = Str("PERPLEXITY_API_KEY")

====
